---------------------------- MODULE Spec2Model ----------------------------
(***************************************************************************)
(* A model of the state-machine editor's useStateMachine hook               *)
(* (packages/tools/vsm/src/components/tools/useStateMachine.tsx) and of the *)
(* PBRMaterial behaviour driven by babylon.PBRMaterial.test.ts.             *)
(*                                                                         *)
(* JavaScript objects live in a heap (a sequence of wrapper objects); a     *)
(* reference is an index into it and 0 is null/undefined.  Date.now() is    *)
(* the variable now, a millisecond clock whose readings do not decrease.    *)
(***************************************************************************)
EXTENDS Integers, Sequences, FiniteSets

\* ---- bounds of the model
MaxTime == 2   \* the clock stops ticking here
MaxCalls == 3  \* setStateMachine is called at most this many times
MaxAssign == 2 \* at most this many texture slots of the material are filled

\* ---- values
Null == "null"
StateMachines == {"M1", "M2"}
\* what a caller can hand to setStateMachine: nothing validates the argument
Arguments == StateMachines \cup {Null}
Consumers == {"A", "B"}
NoRef == 0
SetterFn == "setStateMachineWrapper"
Undefined == "undefined"
HookKeys == {"stateMachine", "setStateMachine", "lastUpdate"}
Textures == {"texture", "other"}
NoTexture == "none"
\* the private texture fields PBRBaseMaterial.hasTexture compares
BaseFields == {"_albedoTexture", "_ambientTexture", "_opacityTexture",
               "_reflectionTexture", "_emissiveTexture", "_reflectivityTexture",
               "_metallicTexture", "_metallicReflectanceTexture",
               "_reflectanceTexture", "_microSurfaceTexture", "_bumpTexture",
               "_lightmapTexture"}
\* the texture field of material.subSurface behind material.refractionTexture
SubSurfaceFields == {"subSurface._refractionTexture"}
Fields == BaseFields \cup SubSurfaceFields

VARIABLES
    now,      \* the value Date.now() returns
    heap,     \* the wrapper objects allocated so far
    ctx,      \* the value of StateMachineContext: a wrapper reference and a setter
    view,     \* per consumer: what its last call of useStateMachine returned
    calls,    \* history: the setStateMachine calls made, in order
    material, \* PBRMaterial: texture held by each private texture field
    isScatteringEnabled, \* material.subSurface.isScatteringEnabled
    isSupported,         \* PrePassRenderer.prototype.isSupported
    prePassRenderer,     \* scene.prePassRenderer
    subSurfaceConfiguration, \* scene.subSurfaceConfiguration
    scatterCalled        \* history: setPrePassRenderer() was called with scattering on

hookVars == <<now, heap, ctx, view, calls>>
pbrVars == <<material, isScatteringEnabled, isSupported, prePassRenderer,
             subSurfaceConfiguration, scatterCalled>>
vars == <<now, heap, ctx, view, calls, material, isScatteringEnabled, isSupported,
          prePassRenderer, subSurfaceConfiguration, scatterCalled>>

-----------------------------------------------------------------------------
\* ---- useStateMachine.tsx

\* Date.now()
DateNow == now

\* mutant: the object literal without a fresh stamp
NewWrapperNoStamp(m, t) == [stateMachine |-> m, lastUpdate |-> 0]

\* mutant: the machine is lost on the way into the object literal
NewWrapperDropsMachine(m, t) == [stateMachine |-> Null, lastUpdate |-> t]

\* { stateMachine, lastUpdate: Date.now() }
NewWrapper(m, t) == [stateMachine |-> m, lastUpdate |-> t]

\* mutant: the wrapper captured by the closure is written in place and handed back
WrapperMutatedInPlace(h, closure, m, t) ==
    [heap |-> [h EXCEPT ![closure.stateMachineWrapper] = NewWrapper(m, t)],
     ref |-> closure.stateMachineWrapper]

\* mutant: the new wrapper keeps the machine of the wrapper the closure captured
WrapperFromCaptured(h, closure, m, t) ==
    [heap |-> Append(h, NewWrapper(h[closure.stateMachineWrapper].stateMachine, t)),
     ref |-> Len(h) + 1]

\* The argument of setStateMachineWrapper: a newly allocated object. The result
\* is the heap after the allocation and the reference handed to the setter.
WrapperToInstall(h, closure, m, t) ==
    [heap |-> Append(h, NewWrapper(m, t)), ref |-> Len(h) + 1]

\* The provider's setter: the context's wrapper becomes the object it is given.
SetStateMachineWrapper(c, ref) == [c EXCEPT !.stateMachineWrapper = ref]

\* mutant: the guard joined with "and"
NotInitializedBoth(c) ==
    c.stateMachineWrapper = NoRef /\ c.setStateMachineWrapper = Undefined

\* !stateMachineWrapper || !setStateMachineWrapper
NotInitialized(c) ==
    c.stateMachineWrapper = NoRef \/ c.setStateMachineWrapper = Undefined

\* mutant: the alternative left in the comment, throw new Error(...)
MissingContextThrows == [status |-> "threw", obj |-> <<>>]

\* return {};
MissingContextResult == [status |-> "returned", obj |-> <<>>]

\* The closure setStateMachine: it captures the render's stateMachineWrapper and
\* setStateMachineWrapper (its lexical scope).
Closure(c) == [stateMachineWrapper |-> c.stateMachineWrapper,
               setStateMachineWrapper |-> c.setStateMachineWrapper]

\* mutant: lastUpdate left out of the returned object
UseStateMachineNoTimestamp(c, h) ==
    IF NotInitialized(c) THEN MissingContextResult
    ELSE [status |-> "returned",
          obj |-> [stateMachine |-> h[c.stateMachineWrapper].stateMachine,
                   setStateMachine |-> Closure(c)]]

\* useStateMachine(): c is what useContext(StateMachineContext) returned. Reading
\* a property of an absent wrapper is a TypeError.
UseStateMachine(c, h) ==
    IF NotInitialized(c) THEN MissingContextResult
    ELSE IF c.stateMachineWrapper = NoRef THEN [status |-> "threw", obj |-> <<>>]
    ELSE [status |-> "returned",
          obj |-> [stateMachine |-> h[c.stateMachineWrapper].stateMachine,
                   setStateMachine |-> Closure(c),
                   lastUpdate |-> h[c.stateMachineWrapper].lastUpdate]]

NotRendered == [status |-> "none", obj |-> <<>>]

\* The context a provider (or its absence) supplies: any combination of a wrapper
\* and a setter being present. A present wrapper holds a machine and was stamped
\* no later than now.
InitHook ==
    /\ now = 1
    /\ \E hasWrapper \in BOOLEAN, hasSetter \in BOOLEAN :
         /\ \E t \in 0..1 :
              heap = IF hasWrapper THEN <<[stateMachine |-> "M1", lastUpdate |-> t]>>
                     ELSE <<>>
         /\ ctx = [stateMachineWrapper |-> IF hasWrapper THEN 1 ELSE NoRef,
                   setStateMachineWrapper |-> IF hasSetter THEN SetterFn ELSE Undefined]
    /\ view = [c \in Consumers |-> NotRendered]
    /\ calls = <<>>

\* new Scene(engine); new PBRMaterial("mat", scene): no texture, scattering off,
\* no prepass renderer and no sub-surface configuration on the scene.
NewScene ==
    /\ material = [f \in Fields |-> NoTexture]
    /\ isScatteringEnabled = FALSE
    /\ prePassRenderer = Undefined
    /\ subSurfaceConfiguration = Undefined
    /\ scatterCalled = FALSE

Init == InitHook /\ NewScene /\ isSupported = FALSE

\* The millisecond clock advances.
Tick ==
    /\ now < MaxTime
    /\ now' = now + 1
    /\ UNCHANGED <<heap, ctx, view, calls>>
    /\ UNCHANGED pbrVars

\* Consumer c renders and calls useStateMachine().
Render(c) ==
    /\ view' = [view EXCEPT ![c] = UseStateMachine(ctx, heap)]
    /\ UNCHANGED <<now, heap, ctx, calls>>
    /\ UNCHANGED pbrVars

\* The history record of one setStateMachine(m) call: the argument, the clock
\* at the call, the wrapper the closure captured, the wrapper that was current
\* and its stamp, and the wrapper that is current once the call has returned
\* and its stamp.
Call(closure, m) ==
    [m |-> m, at |-> now,
     captured |-> closure.stateMachineWrapper,
     replaced |-> ctx.stateMachineWrapper,
     before |-> heap[ctx.stateMachineWrapper].lastUpdate,
     installed |-> ctx'.stateMachineWrapper,
     after |-> heap'[ctx'.stateMachineWrapper].lastUpdate]

\* mutant: the call is skipped when the machine is the one already shown
SetStateMachineIfChanged(c, m) ==
    /\ Len(calls) < MaxCalls
    /\ "setStateMachine" \in DOMAIN view[c].obj
    /\ view[c].obj.setStateMachine.setStateMachineWrapper # Undefined
    /\ LET closure == view[c].obj.setStateMachine
           same == heap[ctx.stateMachineWrapper].stateMachine = m
           inst == WrapperToInstall(heap, closure, m, DateNow)
       IN  /\ heap' = IF same THEN heap ELSE inst.heap
           /\ ctx' = IF same THEN ctx ELSE SetStateMachineWrapper(ctx, inst.ref)
           /\ calls' = Append(calls, Call(closure, m))
    /\ UNCHANGED <<now, view>>
    /\ UNCHANGED pbrVars

\* Consumer c calls the setStateMachine it got from its last render, which may
\* be an earlier render than the context's current one.
SetStateMachine(c, m) ==
    /\ Len(calls) < MaxCalls
    /\ "setStateMachine" \in DOMAIN view[c].obj
    /\ view[c].obj.setStateMachine.setStateMachineWrapper # Undefined
    /\ LET closure == view[c].obj.setStateMachine
           inst == WrapperToInstall(heap, closure, m, DateNow)
       IN  /\ heap' = inst.heap
           /\ ctx' = SetStateMachineWrapper(ctx, inst.ref)
           /\ calls' = Append(calls, Call(closure, m))
    /\ UNCHANGED <<now, view>>
    /\ UNCHANGED pbrVars

Next ==
    \/ Tick
    \/ \E c \in Consumers : Render(c)
    \/ \E c \in Consumers, m \in Arguments : SetStateMachine(c, m)

Spec == Init /\ [][Next]_vars

-----------------------------------------------------------------------------
\* ---- properties of useStateMachine

Current == heap[ctx.stateMachineWrapper]
LastCall == calls[Len(calls)]
NoProvider == ctx.stateMachineWrapper = NoRef /\ ctx.setStateMachineWrapper = Undefined
Full(v) == v.status = "returned" /\ HookKeys \subseteq DOMAIN v.obj
Empty(v) == v.status = "returned" /\ DOMAIN v.obj \cap HookKeys = {}

\* C1: with no provider (neither a wrapper nor a setter in the context), every
\* call of useStateMachine returns normally, and the object it returns has none
\* of stateMachine, setStateMachine and lastUpdate.
C1_MissingContextYieldsEmpty ==
    \A c \in Consumers :
        (NoProvider /\ view[c] # NotRendered) => Empty(view[c])

C1_Witness ==
    \E c \in Consumers : NoProvider /\ view[c].status = "returned"

\* C2: once setStateMachine has been called, a call of useStateMachine returns
\* the machine given to the most recent call and the stamp that call took,
\* whichever closure (current or from an earlier render) made the calls.
C2_LastWriteWins ==
    calls # <<>> =>
        LET r == UseStateMachine(ctx, heap)
        IN  /\ Full(r)
            /\ r.obj.stateMachine = LastCall.m
            /\ r.obj.lastUpdate = LastCall.at

C2_Witness ==
    /\ Len(calls) >= 2
    /\ LastCall.captured # LastCall.replaced
    /\ LastCall.m # calls[Len(calls) - 1].m
    /\ \E c \in Consumers :
         /\ Full(view[c])
         /\ view[c].obj.setStateMachine.stateMachineWrapper = ctx.stateMachineWrapper
         /\ view[c].obj.stateMachine = LastCall.m

\* C3: a call of useStateMachine under a provider holding a wrapper {M, T} and
\* a setter returns stateMachine M and lastUpdate T, and leaves the context and
\* every wrapper object as they were.
C3_HookReturnsWrapperFields ==
    [][\A c \in Consumers :
         view'[c] # view[c] =>
            /\ ctx' = ctx
            /\ heap' = heap
            /\ ~NotInitialized(ctx) =>
                  /\ Full(view'[c])
                  /\ view'[c].obj.stateMachine = Current.stateMachine
                  /\ view'[c].obj.lastUpdate = Current.lastUpdate]_vars

C3_Witness ==
    \E c \in Consumers :
        /\ Full(view[c])
        /\ view[c].obj.setStateMachine.stateMachineWrapper = ctx.stateMachineWrapper
        /\ view[c].obj.stateMachine = "M2"
        /\ view[c].obj.lastUpdate = 2

\* C4: no step lowers the lastUpdate of the context's wrapper: a replacement
\* stamps T2 >= T, T being the stamp of the wrapper it replaces.
C4_LastUpdateNeverDecreases ==
    [][(ctx.stateMachineWrapper # NoRef /\ ctx'.stateMachineWrapper # NoRef) =>
          heap'[ctx'.stateMachineWrapper].lastUpdate >= Current.lastUpdate]_vars

C4_Witness ==
    /\ Len(calls) >= 2
    /\ calls[1].before = 1
    /\ calls[1].after = calls[1].before
    /\ calls[2].after > calls[1].after

\* C5 as stated: of two consecutive calls with the same state machine, the second
\* leaves a lastUpdate strictly greater than the first, and the first one
\* strictly greater than the stamp it found.
C5_StrictAdvance ==
    \A i \in 1..(Len(calls) - 1) :
        (calls[i].m \in StateMachines /\ calls[i + 1].m = calls[i].m) =>
            /\ calls[i + 1].after > calls[i].after
            /\ calls[i].after > calls[i].before

\* C5, amended: two consecutive calls with the same machine each install a new
\* wrapper stamped with the clock at the call; the stamps do not decrease
\* (after the second >= after the first >= before the first).
C5_UnconditionalStamp ==
    \A i \in 1..(Len(calls) - 1) :
        calls[i + 1].m = calls[i].m =>
            /\ calls[i].installed # calls[i].replaced
            /\ calls[i + 1].installed # calls[i + 1].replaced
            /\ calls[i].after = calls[i].at
            /\ calls[i + 1].after = calls[i + 1].at
            /\ calls[i + 1].after >= calls[i].after
            /\ calls[i].after >= calls[i].before

C5_Witness ==
    \E i \in 1..(Len(calls) - 1) :
        /\ calls[i + 1].m = calls[i].m
        /\ calls[i + 1].at = calls[i].at
        /\ calls[i + 1].installed = ctx.stateMachineWrapper

\* C6 as stated: a present wrapper has a non-null stateMachine and a lastUpdate
\* no older than the last replacement, whatever the calls were given.
C6_NonNullWhateverArgument ==
    ctx.stateMachineWrapper # NoRef =>
        /\ Current.stateMachine # Null
        /\ calls # <<>> => Current.lastUpdate >= LastCall.at

\* C6, amended: a present wrapper has a lastUpdate no older than the last
\* replacement, and a non-null stateMachine unless the most recent
\* setStateMachine call was given null (the argument is stored unvalidated).
C6_NonNullUnlessNullGiven ==
    ctx.stateMachineWrapper # NoRef =>
        /\ calls = <<>> => Current.stateMachine # Null
        /\ calls # <<>> =>
              /\ (Current.stateMachine = Null) <=> (LastCall.m = Null)
              /\ Current.lastUpdate >= LastCall.at

C6_Witness ==
    /\ Len(calls) >= 2
    /\ calls[Len(calls) - 1].m = Null
    /\ LastCall.m # Null
    /\ Current.stateMachine # Null

\* C9: setStateMachine installs a newly created wrapper and no step changes a
\* wrapper object that already exists, so what a consumer holds of the
\* previous wrapper stays as it was.
C9_ReplacedWholesale ==
    [][/\ Len(heap') >= Len(heap)
       /\ \A i \in 1..Len(heap) : heap'[i] = heap[i]
       /\ calls' # calls => ctx'.stateMachineWrapper > Len(heap)]_vars

C9_Witness ==
    \E c \in Consumers :
        /\ Full(view[c])
        /\ view[c].obj.setStateMachine.stateMachineWrapper # ctx.stateMachineWrapper
        /\ view[c].obj.stateMachine # Current.stateMachine
        /\ view[c].obj.lastUpdate # Current.lastUpdate
        /\ view[c].obj.stateMachine =
             heap[view[c].obj.setStateMachine.stateMachineWrapper].stateMachine

\* C10: what useStateMachine returns has either all of stateMachine,
\* setStateMachine and lastUpdate or none of them, and none when the context
\* lacks the wrapper or the setter.
C10_AllOrNothing ==
    \A c \in Consumers :
        view[c] # NotRendered =>
            /\ Full(view[c]) \/ Empty(view[c])
            /\ NotInitialized(ctx) => Empty(view[c])

C10_Witness ==
    \E c \in Consumers :
        /\ view[c].status = "returned"
        /\ ctx.stateMachineWrapper # NoRef
        /\ ctx.setStateMachineWrapper = Undefined

-----------------------------------------------------------------------------
\* ---- PBRMaterial, as babylon.PBRMaterial.test.ts drives it

\* The private field behind each public texture property of the material.
FieldOf(slot) ==
    IF slot = "refractionTexture" THEN "subSurface._refractionTexture"
    ELSE "_" \o slot

TextureSlots == {"albedoTexture", "ambientTexture", "opacityTexture",
                 "reflectionTexture", "emissiveTexture", "reflectivityTexture",
                 "metallicTexture", "metallicReflectanceTexture",
                 "reflectanceTexture", "microSurfaceTexture", "bumpTexture",
                 "lightmapTexture", "refractionTexture"}

\* material.subSurface.hasTexture(texture)
SubSurfaceHasTexture(mat, t) == mat["subSurface._refractionTexture"] = t

\* mutant: the comparison of _reflectanceTexture is missing
HasTextureNoReflectance(mat, t) ==
    \/ SubSurfaceHasTexture(mat, t)
    \/ mat["_albedoTexture"] = t
    \/ mat["_ambientTexture"] = t
    \/ mat["_opacityTexture"] = t
    \/ mat["_reflectionTexture"] = t
    \/ mat["_emissiveTexture"] = t
    \/ mat["_reflectivityTexture"] = t
    \/ mat["_metallicTexture"] = t
    \/ mat["_metallicReflectanceTexture"] = t
    \/ mat["_microSurfaceTexture"] = t
    \/ mat["_bumpTexture"] = t
    \/ mat["_lightmapTexture"] = t

\* material.hasTexture(texture): the sub-surface's answer, then one comparison
\* per private texture field.
HasTexture(mat, t) ==
    \/ SubSurfaceHasTexture(mat, t)
    \/ mat["_albedoTexture"] = t
    \/ mat["_ambientTexture"] = t
    \/ mat["_opacityTexture"] = t
    \/ mat["_reflectionTexture"] = t
    \/ mat["_emissiveTexture"] = t
    \/ mat["_reflectivityTexture"] = t
    \/ mat["_metallicTexture"] = t
    \/ mat["_metallicReflectanceTexture"] = t
    \/ mat["_reflectanceTexture"] = t
    \/ mat["_microSurfaceTexture"] = t
    \/ mat["_bumpTexture"] = t
    \/ mat["_lightmapTexture"] = t

\* The hook's state while the material tests run: no provider, nothing rendered.
HookIdle ==
    /\ now = 1
    /\ heap = <<>>
    /\ ctx = [stateMachineWrapper |-> NoRef, setStateMachineWrapper |-> Undefined]
    /\ view = [c \in Consumers |-> NotRendered]
    /\ calls = <<>>

\* beforeEach: a scene and a material; isSupported is what the engine (or the
\* test's spy) makes it.
InitPBR == HookIdle /\ NewScene /\ isSupported \in BOOLEAN

\* material.<slot> = t (t a texture, or null to clear the slot)
SetTexture(slot, t) ==
    /\ \/ t = NoTexture
       \/ material[FieldOf(slot)] # NoTexture
       \/ Cardinality({f \in Fields : material[f] # NoTexture}) < MaxAssign
    /\ material' = [material EXCEPT ![FieldOf(slot)] = t]
    /\ UNCHANGED <<isScatteringEnabled, isSupported, prePassRenderer,
                   subSurfaceConfiguration, scatterCalled>>
    /\ UNCHANGED hookVars

\* material.subSurface.isScatteringEnabled = b
SetScattering(b) ==
    /\ isScatteringEnabled' = b
    /\ UNCHANGED <<material, isSupported, prePassRenderer,
                   subSurfaceConfiguration, scatterCalled>>
    /\ UNCHANGED hookVars

\* scene.enablePrePassRenderer(): the scene's renderer if it has one, otherwise a
\* new one, dropped to null when prepass rendering is not supported.
EnablePrePassRenderer(ppr, supported) ==
    IF ppr = "renderer" THEN ppr
    ELSE IF supported THEN "renderer" ELSE Null

\* scene.enableSubSurfaceForPrePass() followed by enabled = true on its result:
\* the renderer and the configuration the scene ends with.
EnableSubSurfaceForPrePass(ppr, ssc, supported) ==
    IF ssc # Undefined THEN [prePassRenderer |-> ppr, subSurfaceConfiguration |-> "enabled"]
    ELSE LET r == EnablePrePassRenderer(ppr, supported)
         IN  [prePassRenderer |-> r,
              subSurfaceConfiguration |-> IF r = "renderer" THEN "enabled" ELSE ssc]

\* mutant: the scattering flag is not looked at
ScatteringIgnored(flag) == TRUE

\* if (!this.subSurface?.isScatteringEnabled) return false;
ScatteringRequested(flag) == flag

\* material.setPrePassRenderer()
SetPrePassRenderer ==
    /\ LET on == ScatteringRequested(isScatteringEnabled)
           r == EnableSubSurfaceForPrePass(prePassRenderer, subSurfaceConfiguration,
                                           isSupported)
       IN  /\ prePassRenderer' = IF on THEN r.prePassRenderer ELSE prePassRenderer
           /\ subSurfaceConfiguration' =
                IF on THEN r.subSurfaceConfiguration ELSE subSurfaceConfiguration
    /\ scatterCalled' = (scatterCalled \/ isScatteringEnabled)
    /\ UNCHANGED <<material, isScatteringEnabled, isSupported>>
    /\ UNCHANGED hookVars

NextPBR ==
    \/ \E slot \in TextureSlots, t \in Textures \cup {NoTexture} : SetTexture(slot, t)
    \/ \E b \in BOOLEAN : SetScattering(b)
    \/ SetPrePassRenderer

SpecPBR == InitPBR /\ [][NextPBR]_vars

\* ---- properties of PBRMaterial

C8_PrePassOnlyWithScattering ==
    /\ (prePassRenderer # Undefined) <=> scatterCalled
    /\ (scatterCalled /\ isSupported) =>
          (prePassRenderer = "renderer" /\ subSurfaceConfiguration = "enabled")
    /\ ~scatterCalled => subSurfaceConfiguration # "enabled"

C8_Witness ==
    /\ scatterCalled
    /\ isSupported
    /\ ~isScatteringEnabled
    /\ subSurfaceConfiguration = "enabled"

=============================================================================
